---- MODULE Spec2Model ----
(***************************************************************************)
(* A model of src/node.js: the m-ary tree class Node.                      *)
(*                                                                         *)
(* A node reference is an index into `heap`, the sequence of every Node    *)
(* constructed so far; heap[n] is the node's `properties` object.  The     *)
(* reference Null (0) is JavaScript's null.  JavaScript values held in     *)
(* `content` are tagged records [type, val] so that Node.typeOf can switch *)
(* on the constructor name.                                                *)
(*                                                                         *)
(* Every method is an operator computed as its code computes it; a method  *)
(* that changes the structure returns the new heap together with its       *)
(* return value.  Each action is one call of a method by the client:       *)
(* it records the call in `call` and what it returned in `ret`.            *)
(***************************************************************************)
EXTENDS Integers, Sequences, FiniteSets, TLC

VARIABLES heap, call, ret

vars == <<heap, call, ret>>

\* ---------------------------------------------------------------- bounds

\* Number of nodes the client constructs before linking them.
NumNodes == 4
\* next(count) and previous(count) are called with -MaxCount .. MaxCount.
MaxCount == 2
\* push(...nodes) is called with 0 .. MaxPush arguments.
MaxPush == 2

\* Frames a recursive method may use.  A copy of a tree at most doubles the
\* nodes, so the limit exceeds the number of nodes that can exist and only
\* a walk round a cycle can use it up.
StackLimit == 2 * NumNodes + 1

\* ------------------------------------------------------------ JS values

Null == 0

JsNull == [type |-> "null", val |-> <<>>]
JsUndefined == [type |-> "undefined", val |-> <<>>]
JsString(s) == [type |-> "String", val |-> <<s>>]
JsArray(a) == [type |-> "Array", val |-> a]
JsObject(a) == [type |-> "Object", val |-> a]

\* What a call returned: a node reference, a sequence of them, a number, an
\* encoded object, JavaScript's undefined or null, a thrown TypeError, or
\* a recursion that used up every frame.
RetNode(n) == [kind |-> "node", val |-> n]
RetList(s) == [kind |-> "list", val |-> s]
RetNumber(k) == [kind |-> "number", val |-> k]
RetObject(o) == [kind |-> "object", val |-> o]
RetUndefined == [kind |-> "undefined", val |-> 0]
RetNull == [kind |-> "null", val |-> 0]
RetTypeError == [kind |-> "TypeError", val |-> 0]
RetUnbounded == [kind |-> "unbounded", val |-> 0]

Range(s) == {s[i] : i \in 1..Len(s)}

\* ------------------------------------------------------------- creating

\* constructor({ id, content = null })
NewNode(idv, contentv) ==
  [id |-> idv,
   content |-> IF contentv = JsUndefined THEN JsNull ELSE contentv,
   parent |-> Null,
   children |-> <<>>]

\* The contents the client gives the nodes it constructs: a string, none
\* (the default), an array, an object, a string, ...
ContentOf(i) ==
  CASE i % 4 = 1 -> JsString("zero")
    [] i % 4 = 2 -> JsUndefined
    [] i % 4 = 3 -> JsArray(<<"a", "b">>)
    [] OTHER -> JsObject(<<"k", "v">>)

\* ---------------------------------------------------------------- helpers

\* static typeOf(object)
typeOf(object) ==
  IF object.type \in {"null", "undefined"} THEN "null" ELSE object.type

\* static clone(object): a one-level copy of an array or a plain object,
\* anything else as it is.
NodeClone(object) ==
  CASE typeOf(object) = "Array" -> JsArray([i \in 1..Len(object.val) |-> object.val[i]])
    [] typeOf(object) = "Object" -> JsObject([i \in 1..Len(object.val) |-> object.val[i]])
    [] OTHER -> object

\* array.splice(index, 1), index counted from 1
splice(array, index) ==
  [i \in 1..(Len(array) - 1) |-> IF i < index THEN array[i] ELSE array[i + 1]]

\* The loop of static remove(array, ...elements), from `index` down to 1.
RECURSIVE removeFrom(_, _, _)
removeFrom(array, index, elements) ==
  IF index < 1 THEN array
  ELSE removeFrom(IF array[index] \in elements THEN splice(array, index) ELSE array,
                  index - 1, elements)

\* static remove(array, ...elements)
remove(array, elements) == removeFrom(array, Len(array), elements)

\* ------------------------------------------------------------ properties

isRoot(h, self) == h[self].parent = Null

hasChildren(h, self) == Len(h[self].children) > 0

hasNodes(h, self) == hasChildren(h, self)

isLeaf(h, self) == ~ hasNodes(h, self)

\* ------------------------------------------------- relations on the heap

Live(h) == 1..Len(h)

\* The nodes reachable from the set S by one or more child links.
RECURSIVE ReachDown(_, _, _)
ReachDown(h, S, k) ==
  LET T == S \cup UNION {Range(h[m].children) : m \in S}
  IN IF k = 0 \/ T = S THEN S ELSE ReachDown(h, T, k - 1)

Descendants(h, n) == ReachDown(h, Range(h[n].children), Len(h))

\* The nodes reachable from n by one or more parent links.
RECURSIVE ReachUp(_, _, _)
ReachUp(h, S, k) ==
  LET T == S \cup ({h[m].parent : m \in S} \ {Null})
  IN IF k = 0 \/ T = S THEN S ELSE ReachUp(h, T, k - 1)

AncestorSet(h, n) == ReachUp(h, {h[n].parent} \ {Null}, Len(h))

OwnAncestor(h, n) == n \in AncestorSet(h, n)

\* No node of n's subtree is below itself: the walks down from n end.
TreeBelow(h, n) == \A m \in {n} \cup Descendants(h, n) : m \notin Descendants(h, m)

Acyclic(h) == \A n \in Live(h) : ~ OwnAncestor(h, n)

\* ---------------------------------------------------------------- parent

setParentKeepsOldLink(h, self, parentNode) ==
  LET h2 == IF parentNode # Null
            THEN [h EXCEPT ![parentNode].children = Append(@, self)]
            ELSE h
  IN [h2 EXCEPT ![self].parent = parentNode]

setParentPrepends(h, self, parentNode) ==
  LET h1 == IF h[self].parent # Null
            THEN [h EXCEPT ![h[self].parent].children = remove(@, {self})]
            ELSE h
      h2 == IF parentNode # Null
            THEN [h1 EXCEPT ![parentNode].children = <<self>> \o @]
            ELSE h1
  IN [h2 EXCEPT ![self].parent = parentNode]

setParentRefusesCycle(h, self, parentNode) ==
  IF parentNode # Null /\ parentNode \in {self} \cup Descendants(h, self) THEN h
  ELSE LET h1 == IF h[self].parent # Null
                 THEN [h EXCEPT ![h[self].parent].children = remove(@, {self})]
                 ELSE h
           h2 == IF parentNode # Null
                 THEN [h1 EXCEPT ![parentNode].children = Append(@, self)]
                 ELSE h1
       IN [h2 EXCEPT ![self].parent = parentNode]

\* setParent(parentNode): the heap after the call.
setParent(h, self, parentNode) ==
  LET h1 == IF h[self].parent # Null
            THEN [h EXCEPT ![h[self].parent].children = remove(@, {self})]
            ELSE h
      h2 == IF parentNode # Null
            THEN [h1 EXCEPT ![parentNode].children = Append(@, self)]
            ELSE h1
  IN [h2 EXCEPT ![self].parent = parentNode]

\* setRoot()
setRoot(h, self) == setParent(h, self, Null)

\* ---------------------------------------------------------------- adding

addReturnsParent(h, self, node) ==
  [heap |-> setParent(h, node, self), ret |-> self]

\* add(node): the heap after the call and the node returned.
add(h, self, node) ==
  [heap |-> setParent(h, node, self), ret |-> node]

\* push(...nodes): the heap after the call and the node returned.
RECURSIVE push(_, _, _)
push(h, self, nodes) ==
  IF nodes = <<>> THEN [heap |-> h, ret |-> self]
  ELSE push(add(h, self, Head(nodes)).heap, self, Tail(nodes))

\* --------------------------------------------------------------- lineage

RECURSIVE ancestors(_, _, _, _)
ancestorsUnshifts(h, self, acc, frames) ==
  IF frames = 0 THEN RetUnbounded
  ELSE IF isRoot(h, self) THEN RetList(acc)
  ELSE ancestors(h, h[self].parent, <<h[self].parent>> \o acc, frames - 1)

\* ancestors(ancestors = []): `acc` is the array built so far, `frames` the
\* frames left; a root returns what was built.
ancestors(h, self, acc, frames) ==
  IF frames = 0 THEN RetUnbounded
  ELSE IF isRoot(h, self) THEN RetList(acc)
  ELSE ancestors(h, h[self].parent, acc \o <<h[self].parent>>, frames - 1)

\* lineage()
lineage(h, self, frames) == ancestors(h, self, <<self>>, frames)

\* parents(), alias of ancestors()
parents(h, self, frames) == ancestors(h, self, <<>>, frames)

\* ------------------------------------------------------------------ root

\* root()
RECURSIVE root(_, _, _)
root(h, self, frames) ==
  IF frames = 0 THEN RetUnbounded
  ELSE IF isRoot(h, self) THEN RetNode(self)
  ELSE root(h, h[self].parent, frames - 1)

\* --------------------------------------------------------------- metrics

\* array.indexOf(element), counted from 0; -1 when absent.
RECURSIVE indexOfFrom(_, _, _)
indexOfFrom(array, element, i) ==
  IF i > Len(array) THEN -1
  ELSE IF array[i] = element THEN i - 1
  ELSE indexOfFrom(array, element, i + 1)

indexOf(array, element) == indexOfFrom(array, element, 1)

\* index()
index(h, self) ==
  IF isRoot(h, self) THEN RetNull
  ELSE RetNumber(indexOf(h[h[self].parent].children, self))

\* depth()
RECURSIVE depth(_, _, _)
depth(h, self, frames) ==
  IF frames = 0 THEN RetUnbounded
  ELSE IF isRoot(h, self) THEN RetNumber(0)
  ELSE LET up == depth(h, h[self].parent, frames - 1)
       IN IF up.kind = "unbounded" THEN up ELSE RetNumber(1 + up.val)

\* -------------------------------------------------------------- siblings

\* array[i] for a number i counted from 0: the element, or undefined when
\* the array has no such index.
elementAt(array, i) ==
  IF i >= 0 /\ i < Len(array) THEN RetNode(array[i + 1]) ELSE RetUndefined

nextWrapsAround(h, self, count) ==
  IF h[self].parent = Null THEN RetTypeError
  ELSE LET nodes == h[h[self].parent].children
       IN RetNode(nodes[((index(h, self).val + count) % Len(nodes)) + 1])

\* next(count = 1): reading `nodes` of a null parent throws a TypeError.
next(h, self, count) ==
  IF h[self].parent = Null THEN RetTypeError
  ELSE elementAt(h[h[self].parent].children, index(h, self).val + count)

\* previous(count = 1)
previous(h, self, count) == next(h, self, -count)

\* ------------------------------------------------------------- iterating

RECURSIVE generatorEach(_, _)
generatorPostOrder(h, self) == generatorEach(h, h[self].children) \o <<self>>

\* The inner generator of [Symbol.iterator](): the nodes it yields, in order.
RECURSIVE generator(_, _)
generator(h, self) == <<self>> \o generatorEach(h, h[self].children)

\* The for-of loop of the generator over `nodes`.
generatorEach(h, nodes) ==
  IF nodes = <<>> THEN <<>>
  ELSE generator(h, Head(nodes)) \o generatorEach(h, Tail(nodes))

\* [Symbol.iterator]()
iterator(h, self) == generator(h, self)

\* array.filter((node) => node.isLeaf())
RECURSIVE filterLeaf(_, _)
filterLeaf(h, array) ==
  IF array = <<>> THEN <<>>
  ELSE (IF isLeaf(h, Head(array)) THEN <<Head(array)>> ELSE <<>>)
       \o filterLeaf(h, Tail(array))

\* leaves()
leaves(h, self) == filterLeaf(h, iterator(h, self))

\* ----------------------------------------------------------- duplicating

\* detach(): the heap with the copy constructed and the copy.
detach(h, self) ==
  [heap |-> Append(h, NewNode(h[self].id, NodeClone(h[self].content))),
   ret |-> Len(h) + 1]

\* clone(): the heap with the copies constructed and the copy of `self`.
RECURSIVE clone(_, _)
RECURSIVE cloneEach(_, _, _)
clone(h, self) ==
  LET detached == detach(h, self)
  IN cloneEach(detached.heap, detached.ret, h[self].children)

cloneEachShallow(h, detachedNode, nodes) ==
  IF nodes = <<>> THEN [heap |-> h, ret |-> detachedNode]
  ELSE cloneEach(push(h, detachedNode, <<Head(nodes)>>).heap,
                 detachedNode, Tail(nodes))

\* The for-of loop of clone() over `nodes`, the children left to copy.
cloneEach(h, detachedNode, nodes) ==
  IF nodes = <<>> THEN [heap |-> h, ret |-> detachedNode]
  ELSE LET copy == clone(h, Head(nodes))
       IN cloneEach(push(copy.heap, detachedNode, <<copy.ret>>).heap,
                    detachedNode, Tail(nodes))

\* ---------------------------------------------------- encoder and parser

\* The mappings between a node and an object: the default one of
\* encode() and parse(), and the custom one of docs/guide.md.
Mappings == {"default", "custom"}

defaultEncodeNoChildren(h, node, encoded) ==
  [id |-> h[node].id, content |-> h[node].content, nodes |-> <<>>]

\* The default `constructor` of encode(); `encoded` is what encode() gives.
defaultEncode(h, node, encoded) ==
  [id |-> h[node].id, content |-> h[node].content, nodes |-> encoded]

\* The custom `constructor` the guide passes to encode().
customEncode(h, node, encoded) ==
  [customId |-> h[node].id, customContent |-> h[node].content,
   customNodes |-> encoded]

\* encode(constructor)
RECURSIVE encode(_, _, _)
encode(h, self, mapping) ==
  LET nodes == h[self].children
      encoded == [i \in 1..Len(nodes) |-> encode(h, nodes[i], mapping)]
  IN IF mapping = "default" THEN defaultEncode(h, self, encoded)
     ELSE customEncode(h, self, encoded)

\* The default `constructor` of parse().
defaultParse(object) ==
  [id |-> object.id, content |-> object.content, nodes |-> object.nodes]

\* The custom `constructor` the guide passes to parse().
customParse(object) ==
  [id |-> object.customId, content |-> object.customContent,
   nodes |-> object.customNodes]

\* static parse(object, constructor): the heap with the nodes constructed
\* and the node built from `object`.
RECURSIVE parse(_, _, _)
RECURSIVE parseEach(_, _, _, _)
parse(h, object, mapping) ==
  LET fields == IF mapping = "default" THEN defaultParse(object)
                ELSE customParse(object)
      h1 == Append(h, NewNode(fields.id, fields.content))
  IN parseEach(h1, Len(h1), fields.nodes, mapping)

parseEachUnshifts(h, node, nodes, mapping) ==
  IF nodes = <<>> THEN [heap |-> h, ret |-> node]
  ELSE LET child == parse(h, Head(nodes), mapping)
       IN parseEach(setParentPrepends(child.heap, child.ret, node), node,
                    Tail(nodes), mapping)

\* The for-of loop of parse() over `nodes`, the objects left to parse.
parseEach(h, node, nodes, mapping) ==
  IF nodes = <<>> THEN [heap |-> h, ret |-> node]
  ELSE LET child == parse(h, Head(nodes), mapping)
       IN parseEach(add(child.heap, node, child.ret).heap, node,
                    Tail(nodes), mapping)

\* The nodes the client constructed; a call constructs the ones after them.
Own == 1..NumNodes

\* The heap once the client has dropped what a call returned: the nodes the
\* call constructed are collected, unless a node of the client refers to one.
collect(h) ==
  IF \A n \in Own : h[n].parent \in Own \cup {Null} /\ Range(h[n].children) \subseteq Own
  THEN SubSeq(h, 1, NumNodes)
  ELSE h

\* ----------------------------------------------------------------- calls

\* A call: the method, the node it is called on, its node or count
\* argument, the arguments of push, the mapping of encode and parse, and,
\* for setParent, setRoot and add, the parent the moved node had when the
\* call was made.  For parse, `arg` is the node whose encoding is the
\* object parsed.
Call(op, self, arg, args, mapping, old) ==
  [op |-> op, self |-> self, arg |-> arg, args |-> args, mapping |-> mapping,
   old |-> old]

NoCall == Call("none", Null, Null, <<>>, "", Null)

Counts == (0 - MaxCount)..MaxCount

ArgLists(S) == UNION {[1..k -> S] : k \in 0..MaxPush}

\* The client has constructed its nodes, with ids 0, 1, ... as in the guide.
Init ==
  /\ heap = [i \in 1..NumNodes |-> NewNode(i - 1, ContentOf(i))]
  /\ call = NoCall
  /\ ret = RetUndefined

Ready == call.op = "none"

DoSetParent(n, p) ==
  /\ Ready
  /\ heap' = setParent(heap, n, p)
  /\ call' = Call("setParent", n, p, <<>>, "", heap[n].parent)
  /\ ret' = RetUndefined

DoSetRoot(n) ==
  /\ Ready
  /\ heap' = setRoot(heap, n)
  /\ call' = Call("setRoot", n, Null, <<>>, "", heap[n].parent)
  /\ ret' = RetUndefined

DoAdd(p, c) ==
  /\ Ready
  /\ heap' = add(heap, p, c).heap
  /\ call' = Call("add", p, c, <<>>, "", heap[c].parent)
  /\ ret' = RetNode(add(heap, p, c).ret)

DoPush(p, cs) ==
  /\ Ready
  /\ heap' = push(heap, p, cs).heap
  /\ call' = Call("push", p, Null, cs, "", Null)
  /\ ret' = RetNode(push(heap, p, cs).ret)

DoNext(n, count) ==
  /\ Ready
  /\ call' = Call("next", n, count, <<>>, "", Null)
  /\ ret' = next(heap, n, count)
  /\ UNCHANGED heap

DoPrevious(n, count) ==
  /\ Ready
  /\ call' = Call("previous", n, count, <<>>, "", Null)
  /\ ret' = previous(heap, n, count)
  /\ UNCHANGED heap

DoRoot(n) ==
  /\ Ready
  /\ call' = Call("root", n, Null, <<>>, "", Null)
  /\ ret' = root(heap, n, StackLimit)
  /\ UNCHANGED heap

DoDepth(n) ==
  /\ Ready
  /\ call' = Call("depth", n, Null, <<>>, "", Null)
  /\ ret' = depth(heap, n, StackLimit)
  /\ UNCHANGED heap

DoAncestors(n) ==
  /\ Ready
  /\ call' = Call("ancestors", n, Null, <<>>, "", Null)
  /\ ret' = ancestors(heap, n, <<>>, StackLimit)
  /\ UNCHANGED heap

DoLineage(n) ==
  /\ Ready
  /\ call' = Call("lineage", n, Null, <<>>, "", Null)
  /\ ret' = lineage(heap, n, StackLimit)
  /\ UNCHANGED heap

\* A walk down from a node that is below itself never ends; the client
\* iterates, clones and encodes the other nodes.
DoIterate(n) ==
  /\ Ready
  /\ TreeBelow(heap, n)
  /\ call' = Call("iterator", n, Null, <<>>, "", Null)
  /\ ret' = RetList(iterator(heap, n))
  /\ UNCHANGED heap

DoLeaves(n) ==
  /\ Ready
  /\ TreeBelow(heap, n)
  /\ call' = Call("leaves", n, Null, <<>>, "", Null)
  /\ ret' = RetList(leaves(heap, n))
  /\ UNCHANGED heap

DoDetach(n) ==
  /\ Ready
  /\ heap' = detach(heap, n).heap
  /\ call' = Call("detach", n, Null, <<>>, "", Null)
  /\ ret' = RetNode(detach(heap, n).ret)

DoClone(n) ==
  /\ Ready
  /\ TreeBelow(heap, n)
  /\ heap' = clone(heap, n).heap
  /\ call' = Call("clone", n, Null, <<>>, "", Null)
  /\ ret' = RetNode(clone(heap, n).ret)

DoEncode(n, mapping) ==
  /\ Ready
  /\ TreeBelow(heap, n)
  /\ call' = Call("encode", n, Null, <<>>, mapping, Null)
  /\ ret' = RetObject(encode(heap, n, mapping))
  /\ UNCHANGED heap

\* The client parses the object encode() has just returned, with the
\* mapping that encoded it.
DoParse ==
  /\ call.op = "encode"
  /\ heap' = parse(heap, ret.val, call.mapping).heap
  /\ call' = Call("parse", Null, call.self, <<>>, call.mapping, Null)
  /\ ret' = RetNode(parse(heap, ret.val, call.mapping).ret)

\* The client goes on to its next call and drops what the last one returned.
Resume ==
  /\ ~ Ready
  /\ heap' = collect(heap)
  /\ call' = NoCall
  /\ ret' = RetUndefined

Next ==
  \/ \E n \in Own, p \in Own \cup {Null} : DoSetParent(n, p)
  \/ \E n \in Own : DoSetRoot(n)
  \/ \E p \in Own, c \in Own : DoAdd(p, c)
  \/ \E p \in Own, cs \in ArgLists(Own) : DoPush(p, cs)
  \/ \E n \in Own, count \in Counts : DoNext(n, count)
  \/ \E n \in Own, count \in Counts : DoPrevious(n, count)
  \/ \E n \in Own : DoRoot(n)
  \/ \E n \in Own : DoDepth(n)
  \/ \E n \in Own : DoAncestors(n)
  \/ \E n \in Own : DoLineage(n)
  \/ \E n \in Own : DoIterate(n)
  \/ \E n \in Own : DoLeaves(n)
  \/ \E n \in Own : DoDetach(n)
  \/ \E n \in Own : DoClone(n)
  \/ \E n \in Own, mapping \in Mappings : DoEncode(n, mapping)
  \/ DoParse
  \/ Resume

Spec == Init /\ [][Next]_vars

\* ------------------------------------------------------ checked properties

\* How many times `x` occurs in the sequence `seq`.
Count(seq, x) == Cardinality({i \in 1..Len(seq) : seq[i] = x})

\* `seq` without the occurrences of `x`, the other elements in their order.
Without(seq, x) == SelectSeq(seq, LAMBDA y : y # x)

\* The place of `x` in `seq`, counted from 0, when it occurs once.
PlaceOf(seq, x) == (CHOOSE i \in 1..Len(seq) : seq[i] = x) - 1

\* C1: in every state reached by add, push, setParent and setRoot calls on
\* freshly constructed nodes, n.parent is P exactly when P.children contains
\* n, and then contains it exactly once; so no node is among the children
\* of two different nodes.
C1_ParentChildrenAgree ==
  /\ \A n \in Live(heap), P \in Live(heap) :
       /\ (heap[n].parent = P) <=> (n \in Range(heap[P].children))
       /\ (heap[n].parent = P) => Count(heap[P].children, n) = 1
  /\ \A n \in Live(heap), P \in Live(heap), Q \in Live(heap) :
       (n \in Range(heap[P].children) /\ n \in Range(heap[Q].children)) => P = Q

\* A node has just been moved from one parent, which keeps other children,
\* to another parent, which had children already.
C1_Witness ==
  /\ call.op = "setParent"
  /\ call.old \notin {Null, call.arg}
  /\ call.arg # Null
  /\ Len(heap[call.arg].children) >= 2
  /\ heap[call.old].children # <<>>

\* What a step that is a call of add does.
C2_AddStep ==
  call'.op = "add" =>
    LET P == call'.self
        c == call'.arg
        Q == heap[c].parent
    IN /\ heap'[c].parent = P
       /\ Count(heap'[P].children, c) = 1
       /\ heap'[P].children[Len(heap'[P].children)] = c
       /\ (Q # Null /\ Q # P) => c \notin Range(heap'[Q].children)
       /\ ret' = RetNode(c)

\* C2: after P.add(c), whatever parent Q the node c had before: c.parent is
\* P, P.children contains c exactly once, as its last element, c is not in
\* Q.children when Q is a node other than P, and add returned c.
C2_Add == [][C2_AddStep]_vars

\* add has just moved a node away from another parent, behind a child the
\* new parent had already.
C2_Witness ==
  /\ call.op = "add"
  /\ call.old \notin {Null, call.self}
  /\ Len(heap[call.self].children) >= 2

\* The index next(count) or previous(count) reads in the parent's children,
\* counted from 0, for the call recorded in `call`.
TargetIndex ==
  PlaceOf(heap[heap[call.self].parent].children, call.self)
    + (IF call.op = "next" THEN call.arg ELSE 0 - call.arg)

SiblingCall == call.op \in {"next", "previous"} /\ heap[call.self].parent # Null

OutOfRange ==
  TargetIndex < 0 \/ TargetIndex >= Len(heap[heap[call.self].parent].children)

Threw(r) == r.kind \in {"TypeError", "RangeError"}

\* C3 as stated: on a node with a parent, next(count) or previous(count)
\* reading outside the parent's children fails with an error and does not
\* return an absent value.
C3_OutOfRangeThrows ==
  (SiblingCall /\ OutOfRange) => (Threw(ret) /\ ret # RetUndefined)

\* C3 as amended: on a node with a parent, next(count) or previous(count)
\* reading outside the parent's children throws nothing and returns
\* undefined; reading inside it returns the sibling at that index.
C3_OutOfRangeUndefined ==
  SiblingCall =>
    IF OutOfRange THEN ret = RetUndefined
    ELSE ret = RetNode(heap[heap[call.self].parent].children[TargetIndex + 1])

\* previous() has been called on the first of several children.
C3_Witness ==
  /\ call.op = "previous"
  /\ call.arg = 1
  /\ heap[call.self].parent # Null
  /\ Len(heap[heap[call.self].parent].children) >= 2
  /\ heap[heap[call.self].parent].children[1] = call.self
  /\ ret = RetUndefined

\* The nodes of the subtree of n: n and what is below it.
Subtree(h, n) == {n} \cup Descendants(h, n)

\* The trees below a and b have the same ids and contents in the same
\* shape, child by child in order; the links up in b's agree with it.
RECURSIVE SameTree(_, _, _)
SameTree(h, a, b) ==
  /\ h[a].id = h[b].id
  /\ h[a].content = h[b].content
  /\ Len(h[a].children) = Len(h[b].children)
  /\ \A i \in 1..Len(h[a].children) :
       /\ h[h[b].children[i]].parent = b
       /\ SameTree(h, h[a].children[i], h[b].children[i])

\* What a step that is a call of parse does.
C4_ParseStep ==
  call'.op = "parse" =>
    /\ ret'.kind = "node"
    /\ Subtree(heap', ret'.val) \subseteq (Len(heap) + 1)..Len(heap')
    /\ heap'[ret'.val].parent = Null
    /\ SameTree(heap', call'.arg, ret'.val)
    /\ \A n \in Live(heap) : heap'[n] = heap[n]

\* C4: parsing the encoding of a tree built with push and add gives a tree
\* of newly constructed nodes with the ids, contents, shape and child order
\* of the encoded one, with the default mapping and with the custom mapping
\* of the guide, whose two halves are inverses.
C4_RoundTrip == [][C4_ParseStep]_vars

\* A tree of two levels whose root has two children has been encoded with
\* the custom mapping and parsed back.
C4_Witness ==
  /\ call.op = "parse"
  /\ call.mapping = "custom"
  /\ Len(heap[call.arg].children) >= 2
  /\ \E c \in Range(heap[call.arg].children) : heap[c].children # <<>>
  /\ Len(heap) = NumNodes + Cardinality(Subtree(heap, call.arg))

\* The nodes at or below n, found by the links up.
Below(h, n) == {m \in Live(h) : m = n \/ n \in AncestorSet(h, m)}

\* `seq` is the pre-order walk of the subtree of n: it starts with n, holds
\* each node of the subtree once and nothing else, no node comes after one
\* below it, and the children of each node come in their order, each
\* followed by the whole of its subtree.
PreOrder(h, n, seq) ==
  /\ seq # <<>> /\ seq[1] = n
  /\ \A i \in 1..Len(seq), j \in 1..Len(seq) : seq[i] = seq[j] => i = j
  /\ Range(seq) = Below(h, n)
  /\ \A i \in 1..Len(seq), j \in 1..Len(seq) :
       i < j => seq[j] \notin AncestorSet(h, seq[i])
  /\ \A i \in 1..Len(seq) :
       LET kids == h[seq[i]].children
       IN \A k \in 1..Len(kids) :
            LET at == CHOOSE j \in 1..Len(seq) : seq[j] = kids[k]
            IN /\ k = 1 => at = i + 1
               /\ k < Len(kids) =>
                    seq[at + Cardinality(Below(h, kids[k]))] = kids[k + 1]

\* C5: iterating a node of an acyclic tree yields its subtree in pre-order,
\* and leaves() is the part of that walk made of the nodes without children,
\* in the same order.
C5_PreOrder ==
  /\ call.op = "iterator" => PreOrder(heap, call.self, ret.val)
  /\ call.op = "leaves" =>
       /\ \E walk \in {iterator(heap, call.self)} :
            /\ PreOrder(heap, call.self, walk)
            /\ ret.val = SelectSeq(walk, LAMBDA m : heap[m].children = <<>>)
       /\ Range(ret.val) = {m \in Below(heap, call.self) : heap[m].children = <<>>}

\* leaves() has been called on the root of a tree of two levels that has a
\* leaf on each level.
C5_Witness ==
  /\ call.op = "leaves"
  /\ Len(ret.val) >= 2
  /\ \E m \in Range(ret.val) : heap[m].parent = call.self
  /\ \E m \in Range(ret.val) : heap[m].parent \notin {Null, call.self}

\* The walk up from n ends: neither n nor a node above it is above itself.
EndsUp(h, n) == \A m \in {n} \cup AncestorSet(h, n) : ~ OwnAncestor(h, m)

\* C6: on a node of an acyclic tree, ancestors() is the parent, its parent,
\* and so on up to root(); depth() is its length and lineage() is the node
\* followed by it; on a root they are empty, 0 and the node alone.
C6_Lineage ==
  \A n \in Live(heap) :
    EndsUp(heap, n) =>
      LET up == ancestors(heap, n, <<>>, StackLimit)
          line == lineage(heap, n, StackLimit)
      IN /\ up.kind = "list"
         /\ \A i \in 1..Len(up.val) :
              up.val[i] = heap[IF i = 1 THEN n ELSE up.val[i - 1]].parent
         /\ root(heap, n, StackLimit)
              = RetNode(IF up.val = <<>> THEN n ELSE up.val[Len(up.val)])
         /\ heap[root(heap, n, StackLimit).val].parent = Null
         /\ depth(heap, n, StackLimit) = RetNumber(Len(up.val))
         /\ line = RetList(<<n>> \o up.val)
         /\ heap[n].parent = Null =>
              (up.val = <<>> /\ depth(heap, n, StackLimit) = RetNumber(0)
                 /\ line = RetList(<<n>>))
         /\ (call.op = "ancestors" /\ call.self = n) => ret = up
         /\ (call.op = "lineage" /\ call.self = n) => ret = line
         /\ (call.op = "depth" /\ call.self = n) => ret = RetNumber(Len(up.val))

\* lineage() has been called on a node two levels below its root.
C6_Witness ==
  /\ call.op = "lineage"
  /\ ret.kind = "list"
  /\ Len(ret.val) = 3
  /\ ret.val[1] = call.self
  /\ heap[ret.val[3]].parent = Null

\* What a step that is a call of clone does.
C7_CloneStep ==
  call'.op = "clone" =>
    /\ ret'.kind = "node"
    /\ heap'[ret'.val].parent = Null
    /\ SameTree(heap', call'.self, ret'.val)
    /\ Subtree(heap', ret'.val) \subseteq (Len(heap) + 1)..Len(heap')
    /\ \A m \in Live(heap) :
         /\ heap'[m].parent = heap[m].parent
         /\ heap'[m].children = heap[m].children

\* C7: n.clone() returns a root that heads a tree with the ids, contents,
\* shape and child order of n's subtree, made of nodes that did not exist
\* before the call; no node that existed has its parent or children changed.
C7_Clone == [][C7_CloneStep]_vars

\* A node with a parent and two children has been cloned, and so has each
\* child.
C7_Witness ==
  /\ call.op = "clone"
  /\ heap[call.self].parent # Null
  /\ Len(heap[call.self].children) >= 2
  /\ Len(heap) = NumNodes + Cardinality(Subtree(heap, call.self))

\* `object` has the fields named in `fields`, the id and content of n, and
\* under `kids` the like objects of n's children, in order.
RECURSIVE Encodes(_, _, _, _, _)
Encodes(h, n, object, fields, kids) ==
  /\ DOMAIN object = fields
  /\ kids \in DOMAIN object
  /\ object.id = h[n].id
  /\ object.content = h[n].content
  /\ Len(object[kids]) = Len(h[n].children)
  /\ \A i \in 1..Len(h[n].children) :
       Encodes(h, h[n].children[i], object[kids][i], fields, kids)

\* C8 as stated: encode() with the default mapping gives, for each node of
\* the subtree, an object with exactly the fields id, content and children.
C8_FieldsIdContentChildren ==
  (call.op = "encode" /\ call.mapping = "default") =>
    Encodes(heap, call.self, ret.val, {"id", "content", "children"}, "children")

\* C8 as amended: encode() with the default mapping gives, for each node of
\* the subtree, an object with exactly the fields id, content and nodes: the
\* node's id and content, and under nodes the sequence of the objects of its
\* children in child order, empty for a leaf.
C8_FieldsIdContentNodes ==
  (call.op = "encode" /\ call.mapping = "default") =>
    Encodes(heap, call.self, ret.val, {"id", "content", "nodes"}, "nodes")

\* The root of a tree of two levels, with two children, has been encoded
\* with the default mapping.
C8_Witness ==
  /\ call.op = "encode"
  /\ call.mapping = "default"
  /\ Len(ret.val.nodes) >= 2
  /\ \E i \in 1..Len(ret.val.nodes) : ret.val.nodes[i].nodes # <<>>
  /\ \E i \in 1..Len(ret.val.nodes) : ret.val.nodes[i].nodes = <<>>

\* What setParent and setRoot do to every node but for the moved node's own
\* children: the moved node n leaves the children of its old parent, the
\* others keeping their order, and comes last in the new parent's; n.parent
\* is the new parent; nothing else of any node changes.
MoveStep(n, p, old) ==
  /\ heap'[n].parent = p
  /\ \A m \in Live(heap) :
       /\ heap'[m].id = heap[m].id
       /\ heap'[m].content = heap[m].content
       /\ m # n => heap'[m].parent = heap[m].parent
       /\ m # n => heap'[m].children =
                     (IF m = old THEN Without(heap[m].children, n)
                      ELSE heap[m].children)
                     \o (IF m = p THEN <<n>> ELSE <<>>)
  /\ Len(heap') = Len(heap)

\* A move that leaves the moved node's own children as they were.
C9_OwnChildrenKeptStep ==
  call'.op \in {"setParent", "setRoot"} =>
    /\ MoveStep(call'.self, call'.arg, heap[call'.self].parent)
    /\ heap'[call'.self].children = heap[call'.self].children

\* C9 as stated: n.setParent(newParent), and setRoot(), remove n from its old
\* parent's children, append it to newParent's and set n.parent; n's own
\* children, and everything of the other nodes, stay as they were.
C9_OwnChildrenKept == [][C9_OwnChildrenKeptStep]_vars

\* A move, with what it does to the moved node's own children.
C9_MoveStep ==
  call'.op \in {"setParent", "setRoot"} =>
    LET n == call'.self
        p == call'.arg
        old == heap[n].parent
    IN /\ call'.op = "setRoot" => p = Null
       /\ MoveStep(n, p, old)
       /\ n \notin {p, old} => heap'[n].children = heap[n].children
       /\ heap'[n].children =
            (IF n = old THEN Without(heap[n].children, n) ELSE heap[n].children)
            \o (IF n = p THEN <<n>> ELSE <<>>)

\* C9 as amended: the same, except that n's own children stay as they were
\* only when n is neither its own old parent nor newParent; when it is, n
\* leaves or joins its own children as it does those of any parent.
C9_Move == [][C9_MoveStep]_vars

\* A node with a child of its own has been moved out of a parent that keeps
\* two children, to another node or to no parent.
C9_Witness ==
  /\ call.op \in {"setParent", "setRoot"}
  /\ call.old \notin {Null, call.arg, call.self}
  /\ call.arg # call.self
  /\ Len(heap[call.old].children) >= 2
  /\ heap[call.self].children # <<>>

\* The structural calls that pass as new parent neither the moved node nor
\* a node below it; push moves its arguments one after the other.
RECURSIVE PushKeepsTree(_, _, _)
PushKeepsTree(h, P, nodes) ==
  \/ nodes = <<>>
  \/ /\ P \notin Subtree(h, Head(nodes))
     /\ PushKeepsTree(add(h, P, Head(nodes)).heap, P, Tail(nodes))

KeepsTree(h, c) ==
  CASE c.op = "setParent" -> c.arg = Null \/ c.arg \notin Subtree(h, c.self)
    [] c.op = "setRoot" -> TRUE
    [] c.op = "add" -> c.self \notin Subtree(h, c.arg)
    [] c.op = "push" -> PushKeepsTree(h, c.self, c.args)
    [] OTHER -> FALSE

\* The node moved and the new parent passed, for setParent and add.
Moved(c) == IF c.op = "add" THEN c.arg ELSE c.self

NewParent(c) == IF c.op = "add" THEN c.self ELSE c.arg

\* What the structural calls do to the shape: those that keep to the rule
\* keep the heap acyclic, those that break it make a cycle without failing.
C10_Step ==
  /\ (Acyclic(heap) /\ KeepsTree(heap, call')) => Acyclic(heap')
  /\ (call'.op \in {"setParent", "add"} /\ NewParent(call') # Null
        /\ NewParent(call') \in Subtree(heap, Moved(call'))) =>
       (~ Threw(ret') /\ OwnAncestor(heap', Moved(call')))

\* The walks up end on an acyclic heap and do not on a node above itself.
C10_Walks ==
  /\ \A n \in Live(heap) :
       OwnAncestor(heap, n) =>
         /\ root(heap, n, StackLimit) = RetUnbounded
         /\ depth(heap, n, StackLimit) = RetUnbounded
         /\ ancestors(heap, n, <<>>, StackLimit) = RetUnbounded
  /\ Acyclic(heap) =>
       \A n \in Live(heap) :
         /\ root(heap, n, StackLimit).kind = "node"
         /\ depth(heap, n, StackLimit).kind = "number"
         /\ ancestors(heap, n, <<>>, StackLimit).kind = "list"

\* C10: setParent detects no cycle.  While no call passes as new parent the
\* moved node or a node below it, no node becomes its own ancestor and
\* root(), depth() and ancestors() end on every node; a call that does pass
\* one completes without an error and leaves the moved node its own
\* ancestor, and on such a node root(), depth() and ancestors() never reach
\* a root, however many frames they are given.
C10_NoCycleDetection == [][C10_Step]_vars /\ []C10_Walks

\* root() has been called on a node of a cycle of two or more nodes and did
\* not end.
C10_Witness ==
  /\ call.op = "root"
  /\ ret = RetUnbounded
  /\ OwnAncestor(heap, call.self)
  /\ heap[call.self].parent # call.self

====
